---------------------------- MODULE Spec2Model ----------------------------
(***************************************************************************)
(* Verification model of three pieces of ReactPhysics3D:                   *)
(*   - CollisionCallback::CollisionCallbackInfo (constructor/destructor):  *)
(*     the chain of pool-allocated ContactManifoldListElement nodes,       *)
(*   - Matrix3x3::getInverse and Matrix3x3::operator*,                     *)
(*   - ConvexMeshShape::setLocalScaling / getLocalBounds /                 *)
(*     computeLocalInertiaTensor.                                          *)
(* Assertions are modelled as compiled in (no NDEBUG): a failed assert     *)
(* aborts the program.                                                     *)
(***************************************************************************)
EXTENDS Integers, Sequences, FiniteSets, TLC

(***************************************************************************)
(* Bounds of the model.                                                    *)
(***************************************************************************)
\* largest number of manifolds in the manifold set of one pair
MaxManifolds == 2
\* number of blocks already outstanding in the allocator before any build
NbPreBlocks == 1
\* matrix entries range over -1 .. MaxEntry
MaxEntry == 1
\* mesh vertices: a corner in (-MaxCoord .. 0)^3 and one in (0 .. MaxCoord)^3
MaxCoord == 1
\* masses range over 1 .. MaxMass
MaxMass == 2

\* the null pointer
NULL == 0
\* sizeof(ContactManifoldListElement): a manifold pointer and a next pointer
SizeofListElement == 16

\* contact points of a manifold: none or some (the code only tests > 0)
ContactPointCounts == {0, 1}
\* the callback-info objects and the overlapping pairs of the world
Infos == {1, 2}
Pairs == {1, 2}
\* ContactManifold objects: pair p owns the ids (p-1)*MaxManifolds + 1 ..
ManifoldIds == 1 .. (Cardinality(Pairs) * MaxManifolds)
\* block addresses of the allocator (it grows: never exhausted)
Addr == 1 .. (NbPreBlocks + Cardinality(Infos) * MaxManifolds)

VARIABLES
    \* ---- the world the callback infos are built from
    manifolds,      \* ContactManifold id -> [nbContactPoints, next]
    pairSet,        \* OverlappingPair id -> head of its manifold chain
    \* ---- the allocator
    outstanding,    \* set of blocks allocated and not released
    nodes,          \* block -> the ContactManifoldListElement living in it
    \* ---- the CollisionCallbackInfo objects
    pc,             \* position of each object in its lifecycle
    info,           \* the object's members
    contactManifold,\* local of the constructor: cursor in the manifold set
    element,        \* local of the destructor: cursor in the chain
    allocLog,       \* per object: <<block, size>> of each allocate call
    releaseLog,     \* per object: <<block, size>> of each release call
    derefLog,       \* per object: what the constructor did with `pair`, in order
    staleRead,      \* a node was read after its release
    fault,          \* "none", or how the program aborted
    \* ---- Matrix3x3
    mpc, matA, determinant, tempMatrix, inverse, product, divided,
    \* ---- ConvexMeshShape
    vertices, mScaling, mMinBounds, mMaxBounds, outMin, outMax, tensor, mass, spc

cbVars == <<manifolds, pairSet, outstanding, nodes, pc, info, contactManifold,
            element, allocLog, releaseLog, derefLog, staleRead, fault>>
matVars == <<mpc, matA, determinant, tempMatrix, inverse, product, divided>>
shapeVars == <<vertices, mScaling, mMinBounds, mMaxBounds, outMin, outMax,
               tensor, mass, spc>>
vars == <<cbVars, matVars, shapeVars>>


(***************************************************************************)
(* The world: overlapping pairs and their contact manifold sets.           *)
(***************************************************************************)
\* OverlappingPair::getShape1 / getShape2 and ProxyShape::getBody
Shape1(p) == 2 * p - 1
Shape2(p) == 2 * p
Body(s) == 100 + s

\* ContactManifoldSet::getContactManifolds of pair->getContactManifoldSet()
GetContactManifolds(p) == pairSet[p]
\* ContactManifold::getNbContactPoints
GetNbContactPoints(m) == manifolds[m].nbContactPoints
\* ContactManifold::getNext
GetNextManifold(m) == manifolds[m].next

\* the manifold ids of pair p when its set holds len manifolds, in set order
PairManifold(p, k) == (p - 1) * MaxManifolds + k

\* a world: each pair has 0..MaxManifolds manifolds, chained in order,
\* each with or without contact points
WorldInit ==
    \E len \in [Pairs -> 0 .. MaxManifolds], pts \in [ManifoldIds -> ContactPointCounts] :
        /\ \A p \in Pairs : \A k \in 1 .. MaxManifolds :
              k > len[p] => pts[PairManifold(p, k)] = 0
        /\ manifolds = [m \in ManifoldIds |->
              LET p == ((m - 1) \div MaxManifolds) + 1
                  k == ((m - 1) % MaxManifolds) + 1
              IN [nbContactPoints |-> pts[m],
                  next |-> IF k < len[p] THEN m + 1 ELSE NULL]]
        /\ pairSet = [p \in Pairs |-> IF len[p] > 0 THEN PairManifold(p, 1) ELSE NULL]

(***************************************************************************)
(* The allocator (memory/Allocator.h).                                     *)
(***************************************************************************)
\* the content of a block that holds no constructed list element
NoNode == [manifold |-> NULL, next |-> NULL]
\* blocks outstanding before the first build
PreBlocks == 1 .. NbPreBlocks

\* Allocator::allocate: a block that is not outstanding (never null)
Allocate(size) == CHOOSE a \in Addr \ outstanding : \A b \in Addr \ outstanding : a <= b
\* Allocator::release: the block goes back to the pool
Release(block, size) == outstanding \ {block}

(***************************************************************************)
(* CollisionCallback::CollisionCallbackInfo                                *)
(***************************************************************************)
\* a value read through a null pair
Garbage == -1

IdleInfo == [pair |-> NULL, body1 |-> NULL, body2 |-> NULL,
             proxyShape1 |-> NULL, proxyShape2 |-> NULL,
             contactManifoldElements |-> NULL]

CallbackIdle ==
    /\ outstanding = PreBlocks
    /\ nodes = [a \in Addr |-> NoNode]
    /\ pc = [i \in Infos |-> "idle"]
    /\ info = [i \in Infos |-> IdleInfo]
    /\ contactManifold = [i \in Infos |-> NULL]
    /\ element = [i \in Infos |-> NULL]
    /\ allocLog = [i \in Infos |-> <<>>]
    /\ releaseLog = [i \in Infos |-> <<>>]
    /\ derefLog = [i \in Infos |-> <<>>]
    /\ staleRead = FALSE
    /\ fault = "none"

\* mutant: body2 taken from the first shape
MemberInitSameBody(p) ==
    [pair |-> p, body1 |-> Body(Shape1(p)), body2 |-> Body(Shape1(p)),
     proxyShape1 |-> Shape1(p), proxyShape2 |-> Shape2(p),
     contactManifoldElements |-> NULL]

\* the member initializer list: every member is read through `pair`
MemberInit(p) ==
    [pair |-> p, body1 |-> Body(Shape1(p)), body2 |-> Body(Shape2(p)),
     proxyShape1 |-> Shape1(p), proxyShape2 |-> Shape2(p),
     contactManifoldElements |-> NULL]

\* the same with a null pair: the reads are undefined behaviour
MemberInitNull ==
    [pair |-> NULL, body1 |-> Garbage, body2 |-> Garbage,
     proxyShape1 |-> Garbage, proxyShape2 |-> Garbage,
     contactManifoldElements |-> NULL]

\* CollisionCallbackInfo(pair, allocator): the member initializer list.
\* With a null pair the dereference either crashes or reads garbage.
Construct(i, p) ==
    /\ fault = "none"
    /\ pc[i] = "idle"
    /\ derefLog' = [derefLog EXCEPT ![i] = Append(@, "deref")]
    /\ IF p # NULL
         THEN /\ info' = [info EXCEPT ![i] = MemberInit(p)]
              /\ pc' = [pc EXCEPT ![i] = "ctor_assert"]
              /\ fault' = fault
         ELSE \/ /\ info' = [info EXCEPT ![i] = MemberInitNull]
                 /\ pc' = [pc EXCEPT ![i] = "ctor_assert"]
                 /\ fault' = fault
              \/ /\ info' = info
                 /\ pc' = [pc EXCEPT ![i] = "aborted"]
                 /\ fault' = "segv"
    /\ UNCHANGED <<manifolds, pairSet, outstanding, nodes, contactManifold,
                   element, allocLog, releaseLog, staleRead>>
    /\ UNCHANGED <<matVars, shapeVars>>

\* mutant: an additional assertion that the manifold set is not empty
CtorAssertPairAndSet(i) ==
    /\ fault = "none"
    /\ pc[i] = "ctor_assert"
    /\ derefLog' = [derefLog EXCEPT ![i] = Append(@, "check")]
    /\ IF info[i].pair = NULL \/ GetContactManifolds(info[i].pair) = NULL
         THEN /\ fault' = "assert"
              /\ pc' = [pc EXCEPT ![i] = "aborted"]
              /\ contactManifold' = contactManifold
         ELSE /\ fault' = fault
              /\ pc' = [pc EXCEPT ![i] = "ctor_loop"]
              /\ contactManifold' =
                    [contactManifold EXCEPT ![i] = GetContactManifolds(info[i].pair)]
    /\ UNCHANGED <<manifolds, pairSet, outstanding, nodes, info, element,
                   allocLog, releaseLog, staleRead>>
    /\ UNCHANGED <<matVars, shapeVars>>

\* assert(pair != nullptr), then the start of the walk over the manifold set
CtorAssertPair(i) ==
    /\ fault = "none"
    /\ pc[i] = "ctor_assert"
    /\ derefLog' = [derefLog EXCEPT ![i] = Append(@, "check")]
    /\ IF info[i].pair = NULL
         THEN /\ fault' = "assert"
              /\ pc' = [pc EXCEPT ![i] = "aborted"]
              /\ contactManifold' = contactManifold
         ELSE /\ fault' = fault
              /\ pc' = [pc EXCEPT ![i] = "ctor_loop"]
              /\ contactManifold' =
                    [contactManifold EXCEPT ![i] = GetContactManifolds(info[i].pair)]
    /\ UNCHANGED <<manifolds, pairSet, outstanding, nodes, info, element,
                   allocLog, releaseLog, staleRead>>
    /\ UNCHANGED <<matVars, shapeVars>>

\* mutant: the assertion is dropped
ManifoldAssertSkipped(m) == TRUE

\* assert(contactManifold->getNbContactPoints() > 0)
ManifoldAssertHolds(m) == GetNbContactPoints(m) > 0

\* mutant: the new element is not linked to the previous one
ListElementNoLink(m, head) == [manifold |-> m, next |-> NULL]

\* ContactManifoldListElement(contactManifold, contactManifoldElements)
ListElement(m, head) == [manifold |-> m, next |-> head]

\* one iteration of the constructor's while loop
CtorLoop(i) ==
    /\ fault = "none"
    /\ pc[i] = "ctor_loop"
    /\ LET cm == contactManifold[i] IN
       IF cm = NULL
         THEN /\ pc' = [pc EXCEPT ![i] = "live"]
              /\ UNCHANGED <<outstanding, nodes, info, contactManifold, allocLog, fault>>
         ELSE IF ~ManifoldAssertHolds(cm)
         THEN /\ fault' = "assert"
              /\ pc' = [pc EXCEPT ![i] = "aborted"]
              /\ UNCHANGED <<outstanding, nodes, info, contactManifold, allocLog>>
         ELSE LET block == Allocate(SizeofListElement)
              IN /\ outstanding' = outstanding \cup {block}
                 /\ allocLog' = [allocLog EXCEPT ![i] =
                        Append(@, <<block, SizeofListElement>>)]
                 /\ nodes' = [nodes EXCEPT ![block] =
                        ListElement(cm, info[i].contactManifoldElements)]
                 /\ info' = [info EXCEPT ![i].contactManifoldElements = block]
                 /\ contactManifold' = [contactManifold EXCEPT ![i] = GetNextManifold(cm)]
                 /\ UNCHANGED <<pc, fault>>
    /\ UNCHANGED <<manifolds, pairSet, element, releaseLog, derefLog, staleRead>>
    /\ UNCHANGED <<matVars, shapeVars>>

\* mutant: the walk starts at the second element
DestroySkipHead(i) ==
    /\ fault = "none"
    /\ pc[i] = "live"
    /\ pc' = [pc EXCEPT ![i] = "dtor_loop"]
    /\ element' = [element EXCEPT ![i] =
          IF info[i].contactManifoldElements = NULL THEN NULL
          ELSE nodes[info[i].contactManifoldElements].next]
    /\ UNCHANGED <<manifolds, pairSet, outstanding, nodes, info, contactManifold,
                   allocLog, releaseLog, derefLog, staleRead, fault>>
    /\ UNCHANGED <<matVars, shapeVars>>

\* ~CollisionCallbackInfo(): element = contactManifoldElements
Destroy(i) ==
    /\ fault = "none"
    /\ pc[i] = "live"
    /\ pc' = [pc EXCEPT ![i] = "dtor_loop"]
    /\ element' = [element EXCEPT ![i] = info[i].contactManifoldElements]
    /\ UNCHANGED <<manifolds, pairSet, outstanding, nodes, info, contactManifold,
                   allocLog, releaseLog, derefLog, staleRead, fault>>
    /\ UNCHANGED <<matVars, shapeVars>>

\* mutant: the node is destructed but its block is not released
DtorNoRelease(e) == outstanding

\* the pool after one iteration of the destructor's loop on node e
DtorRelease(e) == Release(e, SizeofListElement)

\* mutant: the block is released with the size of a pointer
DtorLoopPointerSize(i) ==
    /\ fault = "none"
    /\ pc[i] = "dtor_loop"
    /\ LET e == element[i] IN
       IF e = NULL
         THEN /\ pc' = [pc EXCEPT ![i] = "dead"]
              /\ UNCHANGED <<outstanding, nodes, element, releaseLog, staleRead>>
         ELSE LET nextElement == nodes[e].next
              IN /\ staleRead' = (staleRead \/ e \notin outstanding)
                 /\ nodes' = [nodes EXCEPT ![e] = NoNode]
                 /\ outstanding' = Release(e, 8)
                 /\ releaseLog' = [releaseLog EXCEPT ![i] = Append(@, <<e, 8>>)]
                 /\ element' = [element EXCEPT ![i] = nextElement]
                 /\ pc' = pc
    /\ UNCHANGED <<manifolds, pairSet, info, contactManifold, allocLog, derefLog, fault>>
    /\ UNCHANGED <<matVars, shapeVars>>

\* mutant: the element owns its manifold and clears it when destructed
DtorLoopOwning(i) ==
    /\ fault = "none"
    /\ pc[i] = "dtor_loop"
    /\ LET e == element[i] IN
       IF e = NULL
         THEN /\ pc' = [pc EXCEPT ![i] = "dead"]
              /\ UNCHANGED <<manifolds, outstanding, nodes, element, releaseLog, staleRead>>
         ELSE LET nextElement == nodes[e].next
              IN /\ staleRead' = (staleRead \/ e \notin outstanding)
                 /\ manifolds' = [manifolds EXCEPT ![nodes[e].manifold].nbContactPoints = 0]
                 /\ nodes' = [nodes EXCEPT ![e] = NoNode]
                 /\ outstanding' = DtorRelease(e)
                 /\ releaseLog' = [releaseLog EXCEPT ![i] =
                        Append(@, <<e, SizeofListElement>>)]
                 /\ element' = [element EXCEPT ![i] = nextElement]
                 /\ pc' = pc
    /\ UNCHANGED <<pairSet, info, contactManifold, allocLog, derefLog, fault>>
    /\ UNCHANGED <<matVars, shapeVars>>

\* mutant: getNext() is called after the node is destructed and released
DtorLoopReadAfterRelease(i) ==
    /\ fault = "none"
    /\ pc[i] = "dtor_loop"
    /\ LET e == element[i] IN
       IF e = NULL
         THEN /\ pc' = [pc EXCEPT ![i] = "dead"]
              /\ UNCHANGED <<outstanding, nodes, element, releaseLog, staleRead>>
         ELSE /\ nodes' = [nodes EXCEPT ![e] = NoNode]
              /\ outstanding' = DtorRelease(e)
              /\ releaseLog' = [releaseLog EXCEPT ![i] =
                     Append(@, <<e, SizeofListElement>>)]
              /\ staleRead' = (staleRead \/ e \notin outstanding')
              /\ element' \in {[element EXCEPT ![i] = nodes[e].next],
                               [element EXCEPT ![i] = nodes'[e].next]}
              /\ pc' = pc
    /\ UNCHANGED <<manifolds, pairSet, info, contactManifold, allocLog, derefLog, fault>>
    /\ UNCHANGED <<matVars, shapeVars>>

\* one iteration of the destructor's while loop
DtorLoop(i) ==
    /\ fault = "none"
    /\ pc[i] = "dtor_loop"
    /\ LET e == element[i] IN
       IF e = NULL
         THEN /\ pc' = [pc EXCEPT ![i] = "dead"]
              /\ UNCHANGED <<outstanding, nodes, element, releaseLog, staleRead>>
         ELSE LET nextElement == nodes[e].next
              IN /\ staleRead' = (staleRead \/ e \notin outstanding)
                 /\ nodes' = [nodes EXCEPT ![e] = NoNode]
                 /\ outstanding' = DtorRelease(e)
                 /\ releaseLog' = [releaseLog EXCEPT ![i] =
                        Append(@, <<e, SizeofListElement>>)]
                 /\ element' = [element EXCEPT ![i] = nextElement]
                 /\ pc' = pc
    /\ UNCHANGED <<manifolds, pairSet, info, contactManifold, allocLog, derefLog, fault>>
    /\ UNCHANGED <<matVars, shapeVars>>


(***************************************************************************)
(* Idle states of the other two components.                                *)
(***************************************************************************)
ZeroMatrix == [r \in 0 .. 2 |-> [c \in 0 .. 2 |-> 0]]
ZeroVector == [x |-> 0, y |-> 0, z |-> 0]

MatrixIdle ==
    /\ mpc = "off"
    /\ matA = ZeroMatrix
    /\ determinant = 0
    /\ tempMatrix = ZeroMatrix
    /\ inverse = ZeroMatrix
    /\ product = ZeroMatrix
    /\ divided = FALSE

ShapeIdle ==
    /\ spc = "off"
    /\ vertices = {}
    /\ mScaling = ZeroVector
    /\ mMinBounds = ZeroVector
    /\ mMaxBounds = ZeroVector
    /\ outMin = ZeroVector
    /\ outMax = ZeroVector
    /\ tensor = ZeroMatrix
    /\ mass = 0

(***************************************************************************)
(* Matrix3x3.  Entries are rationals [num, den]: a double is modelled by    *)
(* the exact value it stands for.                                          *)
(***************************************************************************)
Idx == 0 .. 2
\* the entries the input matrices are built from
Entries == -1 .. MaxEntry

Rat(n) == [num |-> n, den |-> 1]
RAdd(a, b) == [num |-> a.num * b.den + b.num * a.den, den |-> a.den * b.den]
RMul(a, b) == [num |-> a.num * b.num, den |-> a.den * b.den]
REq(a, b) == a.num * b.den = b.num * a.den

\* Matrix3x3::setAllValues(a1, a2, a3, b1, b2, b3, c1, c2, c3): row-major
SetAllValues(a1, a2, a3, b1, b2, b3, c1, c2, c3) ==
    [r \in Idx |-> [c \in Idx |->
        IF r = 0 THEN (IF c = 0 THEN a1 ELSE IF c = 1 THEN a2 ELSE a3)
        ELSE IF r = 1 THEN (IF c = 0 THEN b1 ELSE IF c = 1 THEN b2 ELSE b3)
        ELSE (IF c = 0 THEN c1 ELSE IF c = 1 THEN c2 ELSE c3)]]

\* Matrix3x3::getDeterminant
GetDeterminant(array) ==
      array[0][0] * (array[1][1] * array[2][2] - array[2][1] * array[1][2])
    - array[0][1] * (array[1][0] * array[2][2] - array[2][0] * array[1][2])
    + array[0][2] * (array[1][0] * array[2][1] - array[2][0] * array[1][1])

\* Matrix3x3::getTranspose
GetTranspose(array) == [r \in Idx |-> [c \in Idx |-> array[c][r]]]

\* operator*(double, const Matrix3x3&)
ScalarTimes(k, array) == [r \in Idx |-> [c \in Idx |-> RMul(k, Rat(array[r][c]))]]

\* mutant: the sign of the cofactor of entry (0,1) is lost
CofactorsSignSlip(array) ==
    SetAllValues(
        (array[1][1]*array[2][2]-array[2][1]*array[1][2]), (array[1][0]*array[2][2]-array[2][0]*array[1][2]), (array[1][0]*array[2][1]-array[2][0]*array[1][1]),
        -(array[0][1]*array[2][2]-array[2][1]*array[0][2]), (array[0][0]*array[2][2]-array[2][0]*array[0][2]), -(array[0][0]*array[2][1]-array[2][0]*array[0][1]),
        (array[0][1]*array[1][2]-array[0][2]*array[1][1]), -(array[0][0]*array[1][2]-array[1][0]*array[0][2]), (array[0][0]*array[1][1]-array[0][1]*array[1][0]))

\* the tempMatrix.setAllValues(...) call of getInverse
Cofactors(array) ==
    SetAllValues(
        (array[1][1]*array[2][2]-array[2][1]*array[1][2]), -(array[1][0]*array[2][2]-array[2][0]*array[1][2]), (array[1][0]*array[2][1]-array[2][0]*array[1][1]),
        -(array[0][1]*array[2][2]-array[2][1]*array[0][2]), (array[0][0]*array[2][2]-array[2][0]*array[0][2]), -(array[0][0]*array[2][1]-array[2][0]*array[0][1]),
        (array[0][1]*array[1][2]-array[0][2]*array[1][1]), -(array[0][0]*array[1][2]-array[1][0]*array[0][2]), (array[0][0]*array[1][1]-array[0][1]*array[1][0]))

\* mutant: the assertion accepts only positive determinants
InverseAssertPositive(d) == d > 0

\* assert(determinant != 0.0)
InverseAssertHolds(d) == d # 0

\* Matrix3x3::operator*: the nine sums of products, as the code lists them
MatMul(array, matrix2) ==
    SetAllValues(
        RAdd(RAdd(RMul(array[0][0], matrix2[0][0]), RMul(array[0][1], matrix2[1][0])), RMul(array[0][2], matrix2[2][0])),
        RAdd(RAdd(RMul(array[0][0], matrix2[0][1]), RMul(array[0][1], matrix2[1][1])), RMul(array[0][2], matrix2[2][1])),
        RAdd(RAdd(RMul(array[0][0], matrix2[0][2]), RMul(array[0][1], matrix2[1][2])), RMul(array[0][2], matrix2[2][2])),
        RAdd(RAdd(RMul(array[1][0], matrix2[0][0]), RMul(array[1][1], matrix2[1][0])), RMul(array[1][2], matrix2[2][0])),
        RAdd(RAdd(RMul(array[1][0], matrix2[0][1]), RMul(array[1][1], matrix2[1][1])), RMul(array[1][2], matrix2[2][1])),
        RAdd(RAdd(RMul(array[1][0], matrix2[0][2]), RMul(array[1][1], matrix2[1][2])), RMul(array[1][2], matrix2[2][2])),
        RAdd(RAdd(RMul(array[2][0], matrix2[0][0]), RMul(array[2][1], matrix2[1][0])), RMul(array[2][2], matrix2[2][0])),
        RAdd(RAdd(RMul(array[2][0], matrix2[0][1]), RMul(array[2][1], matrix2[1][1])), RMul(array[2][2], matrix2[2][1])),
        RAdd(RAdd(RMul(array[2][0], matrix2[0][2]), RMul(array[2][1], matrix2[1][2])), RMul(array[2][2], matrix2[2][2])))

\* a matrix of integers as a matrix of rationals
ToRat(array) == [r \in Idx |-> [c \in Idx |-> Rat(array[r][c])]]

\* a world without pairs, and no callback info built
WorldNone ==
    /\ manifolds = [m \in ManifoldIds |-> [nbContactPoints |-> 0, next |-> NULL]]
    /\ pairSet = [p \in Pairs |-> NULL]

InitMatrix ==
    /\ WorldNone /\ CallbackIdle /\ ShapeIdle
    /\ mpc = "start"
    /\ matA \in [Idx -> [Idx -> Entries]]
    /\ determinant = 0
    /\ tempMatrix = ZeroMatrix
    /\ inverse = ZeroMatrix
    /\ product = ZeroMatrix
    /\ divided = FALSE

\* getInverse, up to its assertion
GetInverseCheck ==
    /\ mpc = "start"
    /\ determinant' = GetDeterminant(matA)
    /\ mpc' = IF InverseAssertHolds(determinant') THEN "checked" ELSE "assert_failed"
    /\ UNCHANGED <<matA, tempMatrix, inverse, product, divided>>
    /\ UNCHANGED <<cbVars, shapeVars>>

\* getInverse, from the division to the return
GetInverseReturn ==
    /\ mpc = "checked"
    /\ divided' = TRUE
    /\ LET invDeterminant == [num |-> 1, den |-> determinant]
       IN /\ tempMatrix' = Cofactors(matA)
          /\ inverse' = ScalarTimes(invDeterminant, GetTranspose(tempMatrix'))
    /\ mpc' = "returned"
    /\ UNCHANGED <<matA, determinant, product>>
    /\ UNCHANGED <<cbVars, shapeVars>>

\* matA * matA.getInverse()
Multiply ==
    /\ mpc = "returned"
    /\ product' = MatMul(ToRat(matA), inverse)
    /\ mpc' = "done"
    /\ UNCHANGED <<matA, determinant, tempMatrix, inverse, divided>>
    /\ UNCHANGED <<cbVars, shapeVars>>

NextMatrix == GetInverseCheck \/ GetInverseReturn \/ Multiply

SpecMatrix == InitMatrix /\ [][NextMatrix]_vars

\* the determinant by the rule of Sarrus, to compare results against
Sarrus(m) ==
      m[0][0] * m[1][1] * m[2][2] + m[0][1] * m[1][2] * m[2][0]
    + m[0][2] * m[1][0] * m[2][1] - m[0][2] * m[1][1] * m[2][0]
    - m[0][0] * m[1][2] * m[2][1] - m[0][1] * m[1][0] * m[2][2]

Delta(r, c) == IF r = c THEN 1 ELSE 0

\* C6: getInverse fails its assertion exactly when the determinant is zero,
\* before any division by it; for every other matrix it returns a result.
C6_InverseAssertsOnZeroDeterminant ==
    /\ mpc # "start" => determinant = Sarrus(matA)
    /\ mpc = "assert_failed" <=> (mpc # "start" /\ Sarrus(matA) = 0)
    /\ mpc = "assert_failed" => ~divided
    /\ divided => determinant # 0
    /\ mpc \in {"returned", "done"} =>
          /\ divided
          /\ \A r \in Idx, c \in Idx : inverse[r][c].den # 0

C6_Witness ==
    /\ mpc = "assert_failed"
    /\ matA # ZeroMatrix
    /\ \A r \in Idx : matA[r][r] # 0

\* C7: for every non-singular A the product A * A.getInverse() is the
\* identity; in integers: A times the transpose of the cofactor matrix that
\* getInverse builds is det(A) times the identity.
C7_InverseRoundTrip ==
    mpc = "done" =>
        /\ \A r \in Idx, c \in Idx : REq(product[r][c], Rat(Delta(r, c)))
        /\ LET adj == MatMul(ToRat(matA), ToRat(GetTranspose(tempMatrix)))
           IN \A r \in Idx, c \in Idx :
                 /\ adj[r][c].den = 1
                 /\ adj[r][c].num = Sarrus(matA) * Delta(r, c)

C7_Witness ==
    /\ mpc = "done"
    /\ determinant \notin {-1, 0, 1}
    /\ matA # GetTranspose(matA)
    /\ \E r \in Idx, c \in Idx : matA[r][c] < 0

(***************************************************************************)
(* ConvexMeshShape: local scaling, cached bounds, inertia tensor.          *)
(***************************************************************************)
Vec(a, b, c) == [x |-> a, y |-> b, z |-> c]

\* the vertices of the meshes: two opposite corners around the origin
Meshes ==
    {{Vec(-a, -b, -c), Vec(d, e, f)} :
        <<a, b, c, d, e, f>> \in (0 .. MaxCoord) \X (0 .. MaxCoord) \X (0 .. MaxCoord)
                              \X (0 .. MaxCoord) \X (0 .. MaxCoord) \X (0 .. MaxCoord)}
\* the scaling vectors setLocalScaling is called with
Scalings == {Vec(1, 1, 1), Vec(2, 1, 3), Vec(1, 3, 2)}
Masses == 1 .. MaxMass

SetMin(S) == CHOOSE a \in S : \A b \in S : a <= b
SetMax(S) == CHOOSE a \in S : \A b \in S : a >= b

\* ConvexMeshShape::recalculateBounds: the bounds of the scaled vertices
RecalculateBounds(verts, scaling) ==
    [min |-> Vec(SetMin({v.x * scaling.x : v \in verts}),
                 SetMin({v.y * scaling.y : v \in verts}),
                 SetMin({v.z * scaling.z : v \in verts})),
     max |-> Vec(SetMax({v.x * scaling.x : v \in verts}),
                 SetMax({v.y * scaling.y : v \in verts}),
                 SetMax({v.z * scaling.z : v \in verts}))]

\* ConvexMeshShape(polyhedronMesh): scaling (1,1,1), bounds computed once
InitShape ==
    /\ WorldNone /\ CallbackIdle /\ MatrixIdle
    /\ spc = "constructed"
    /\ vertices \in Meshes
    /\ mScaling = Vec(1, 1, 1)
    /\ mMinBounds = RecalculateBounds(vertices, mScaling).min
    /\ mMaxBounds = RecalculateBounds(vertices, mScaling).max
    /\ outMin = ZeroVector
    /\ outMax = ZeroVector
    /\ tensor = ToRat(ZeroMatrix)
    /\ mass = 0

\* mutant: the bounds are recomputed before the scaling is updated
SetLocalScalingStale(scaling) ==
    /\ spc \notin {"off", "assert_failed"}
    /\ mMinBounds' = RecalculateBounds(vertices, mScaling).min
    /\ mMaxBounds' = RecalculateBounds(vertices, mScaling).max
    /\ mScaling' = scaling
    /\ spc' = "scaled"
    /\ UNCHANGED <<vertices, outMin, outMax, tensor, mass>>
    /\ UNCHANGED <<cbVars, matVars>>

\* ConvexMeshShape::setLocalScaling: ConvexShape::setLocalScaling(scaling),
\* then recalculateBounds()
SetLocalScaling(scaling) ==
    /\ spc \notin {"off", "assert_failed"}
    /\ mScaling' = scaling
    /\ mMinBounds' = RecalculateBounds(vertices, mScaling').min
    /\ mMaxBounds' = RecalculateBounds(vertices, mScaling').max
    /\ spc' = "scaled"
    /\ UNCHANGED <<vertices, outMin, outMax, tensor, mass>>
    /\ UNCHANGED <<cbVars, matVars>>

\* ConvexMeshShape::getLocalBounds(min, max)
GetLocalBounds ==
    /\ spc \notin {"off", "assert_failed"}
    /\ outMin' = mMinBounds
    /\ outMax' = mMaxBounds
    /\ spc' = "bounds_read"
    /\ UNCHANGED <<vertices, mScaling, mMinBounds, mMaxBounds, tensor, mass>>
    /\ UNCHANGED <<cbVars, matVars>>

\* Vector3 realExtent = decimal(0.5) * (mMaxBounds - mMinBounds)
RealExtent ==
    [x |-> RMul([num |-> 1, den |-> 2], Rat(mMaxBounds.x - mMinBounds.x)),
     y |-> RMul([num |-> 1, den |-> 2], Rat(mMaxBounds.y - mMinBounds.y)),
     z |-> RMul([num |-> 1, den |-> 2], Rat(mMaxBounds.z - mMinBounds.z))]

RPositive(a) == a.num * a.den > 0

\* assert(realExtent.x > 0 && realExtent.y > 0 && realExtent.z > 0)
ExtentAssertHolds ==
    RPositive(RealExtent.x) /\ RPositive(RealExtent.y) /\ RPositive(RealExtent.z)

\* mutant: the first diagonal entry uses the x and y extents
InertiaTensorAxisSlip(m) ==
    LET factor == RMul([num |-> 1, den |-> 3], Rat(m))
        xSquare == RMul(RealExtent.x, RealExtent.x)
        ySquare == RMul(RealExtent.y, RealExtent.y)
        zSquare == RMul(RealExtent.z, RealExtent.z)
    IN SetAllValues(RMul(factor, RAdd(xSquare, ySquare)), Rat(0), Rat(0),
                    Rat(0), RMul(factor, RAdd(xSquare, zSquare)), Rat(0),
                    Rat(0), Rat(0), RMul(factor, RAdd(xSquare, ySquare)))

\* the matrix computeLocalInertiaTensor writes with tensor.setAllValues
InertiaTensor(m) ==
    LET factor == RMul([num |-> 1, den |-> 3], Rat(m))
        xSquare == RMul(RealExtent.x, RealExtent.x)
        ySquare == RMul(RealExtent.y, RealExtent.y)
        zSquare == RMul(RealExtent.z, RealExtent.z)
    IN SetAllValues(RMul(factor, RAdd(ySquare, zSquare)), Rat(0), Rat(0),
                    Rat(0), RMul(factor, RAdd(xSquare, zSquare)), Rat(0),
                    Rat(0), Rat(0), RMul(factor, RAdd(xSquare, ySquare)))

\* ConvexMeshShape::computeLocalInertiaTensor(tensor, mass)
ComputeLocalInertiaTensor(m) ==
    /\ spc \notin {"off", "assert_failed"}
    /\ mass' = m
    /\ IF ExtentAssertHolds
         THEN /\ tensor' = InertiaTensor(m)
              /\ spc' = "tensor_done"
         ELSE /\ tensor' = tensor
              /\ spc' = "assert_failed"
    /\ UNCHANGED <<vertices, mScaling, mMinBounds, mMaxBounds, outMin, outMax>>
    /\ UNCHANGED <<cbVars, matVars>>

NextShape ==
    \/ \E scaling \in Scalings : SetLocalScaling(scaling)
    \/ GetLocalBounds
    \/ \E m \in Masses : ComputeLocalInertiaTensor(m)

SpecShape == InitShape /\ [][NextShape]_vars

\* the extents max - min of the cached bounds
Extent == Vec(mMaxBounds.x - mMinBounds.x, mMaxBounds.y - mMinBounds.y,
              mMaxBounds.z - mMinBounds.z)
Half(n) == [num |-> n, den |-> 2]
SumSq(a, b) == RAdd(RMul(a, a), RMul(b, b))

\* C8: with half-extents (ex,ey,ez) = 0.5*(max-min) all positive and mass m,
\* computeLocalInertiaTensor writes the diagonal (m/3)(ey^2+ez^2),
\* (m/3)(ex^2+ez^2), (m/3)(ex^2+ey^2) and zero everywhere else; it fails its
\* assertion only when a half-extent is not positive.
C8_BoxInertiaTensor ==
    /\ spc = "tensor_done" =>
          /\ Extent.x > 0 /\ Extent.y > 0 /\ Extent.z > 0
          /\ REq(RMul(Rat(3), tensor[0][0]),
                 RMul(Rat(mass), SumSq(Half(Extent.y), Half(Extent.z))))
          /\ REq(RMul(Rat(3), tensor[1][1]),
                 RMul(Rat(mass), SumSq(Half(Extent.x), Half(Extent.z))))
          /\ REq(RMul(Rat(3), tensor[2][2]),
                 RMul(Rat(mass), SumSq(Half(Extent.x), Half(Extent.y))))
          /\ \A r \in Idx, c \in Idx : r # c => REq(tensor[r][c], Rat(0))
    /\ spc = "assert_failed" => (Extent.x <= 0 \/ Extent.y <= 0 \/ Extent.z <= 0)

C8_Witness ==
    /\ spc = "tensor_done"
    /\ mass = MaxMass
    /\ Extent.x # Extent.y /\ Extent.y # Extent.z /\ Extent.x # Extent.z
    /\ Extent.x % 2 = 1

\* C9: after any sequence of setLocalScaling calls the cached bounds, and
\* what getLocalBounds returns, are the bounds of the mesh under the most
\* recently set scaling.
C9_BoundsFollowScaling ==
    spc # "off" =>
        /\ \A v \in vertices :
              /\ mMinBounds.x <= v.x * mScaling.x /\ v.x * mScaling.x <= mMaxBounds.x
              /\ mMinBounds.y <= v.y * mScaling.y /\ v.y * mScaling.y <= mMaxBounds.y
              /\ mMinBounds.z <= v.z * mScaling.z /\ v.z * mScaling.z <= mMaxBounds.z
        /\ \E v \in vertices : v.x * mScaling.x = mMinBounds.x
        /\ \E v \in vertices : v.y * mScaling.y = mMinBounds.y
        /\ \E v \in vertices : v.z * mScaling.z = mMinBounds.z
        /\ \E v \in vertices : v.x * mScaling.x = mMaxBounds.x
        /\ \E v \in vertices : v.y * mScaling.y = mMaxBounds.y
        /\ \E v \in vertices : v.z * mScaling.z = mMaxBounds.z
        /\ spc = "bounds_read" => (outMin = mMinBounds /\ outMax = mMaxBounds)

C9_Witness ==
    /\ spc = "bounds_read"
    /\ mScaling = Vec(1, 3, 2)
    /\ outMax = Vec(1, 3, 2)
    /\ outMin = Vec(-1, -3, -2)
    /\ tensor # ToRat(ZeroMatrix)

(***************************************************************************)
(* Specification of the callback infos sharing one allocator.              *)
(***************************************************************************)
Init == WorldInit /\ CallbackIdle /\ MatrixIdle /\ ShapeIdle

Next ==
    \/ \E i \in Infos, p \in Pairs \cup {NULL} : Construct(i, p)
    \/ \E i \in Infos : CtorAssertPair(i)
    \/ \E i \in Infos : CtorLoop(i)
    \/ \E i \in Infos : Destroy(i)
    \/ \E i \in Infos : DtorLoop(i)

Spec == Init /\ [][Next]_vars


(***************************************************************************)
(* Traversals used to state the properties.                                *)
(***************************************************************************)
RECURSIVE ManifoldsFrom(_, _)
\* the manifold set as the constructor walks it: getContactManifolds, getNext
ManifoldsFrom(m, fuel) ==
    IF m = NULL \/ fuel = 0 THEN <<>>
    ELSE <<m>> \o ManifoldsFrom(GetNextManifold(m), fuel - 1)

ManifoldSetSeq(p) == ManifoldsFrom(GetContactManifolds(p), MaxManifolds + 1)

RECURSIVE ChainFrom(_, _)
\* the chain as the destructor walks it: element, element->getNext(), ...
ChainFrom(a, fuel) ==
    IF a = NULL \/ fuel = 0 THEN <<>>
    ELSE <<a>> \o ChainFrom(nodes[a].next, fuel - 1)

ChainFuel == Cardinality(Addr) + 1
ChainOf(i) == ChainFrom(info[i].contactManifoldElements, ChainFuel)
ChainManifolds(i) == [k \in 1 .. Len(ChainOf(i)) |-> nodes[ChainOf(i)[k]].manifold]

Range(s) == {s[k] : k \in 1 .. Len(s)}
Reverse(s) == [k \in 1 .. Len(s) |-> s[Len(s) + 1 - k]]
Blocks(log) == {log[k][1] : k \in 1 .. Len(log)}

\* the manifolds of the pair that the constructor's cursor has gone past
Visited(i) ==
    LET seq == ManifoldSetSeq(info[i].pair)
    IN IF contactManifold[i] = NULL THEN seq
       ELSE SubSeq(seq, 1, (CHOOSE k \in 1 .. Len(seq) : seq[k] = contactManifold[i]) - 1)

AllNonEmpty(p) == \A m \in Range(ManifoldSetSeq(p)) : GetNbContactPoints(m) > 0
Built(i) == info[i].pair # NULL /\ pc[i] \in {"live", "dtor_loop", "dead"}
Walking(i) == info[i].pair # NULL /\ pc[i] \in {"ctor_loop", "live"}

\* the nodes a callback-info object holds
NodesHeld(i) ==
    IF pc[i] \in {"ctor_loop", "live", "aborted"} THEN Len(ChainOf(i))
    ELSE IF pc[i] = "dtor_loop" THEN Len(ChainFrom(element[i], ChainFuel))
    ELSE 0

RECURSIVE SumHeld(_)
SumHeld(S) ==
    IF S = {} THEN 0
    ELSE LET i == CHOOSE x \in S : TRUE IN NodesHeld(i) + SumHeld(S \ {i})

(***************************************************************************)
(* Properties of the callback infos.                                       *)
(***************************************************************************)
\* C1: for a pair with N manifolds, each with at least one contact point,
\* the constructor makes exactly N allocate calls and leaves a chain of
\* exactly N nodes, and the destructor makes exactly N release calls, one
\* for each block the constructor allocated.
C1_ChainIntegrity ==
    \A i \in Infos :
        (Built(i) /\ AllNonEmpty(info[i].pair)) =>
            LET N == Len(ManifoldSetSeq(info[i].pair))
            IN /\ Len(allocLog[i]) = N
               /\ Cardinality(Blocks(allocLog[i])) = N
               /\ pc[i] = "live" => Len(ChainOf(i)) = N
               /\ pc[i] = "dead" =>
                     /\ Len(releaseLog[i]) = N
                     /\ Blocks(releaseLog[i]) = Blocks(allocLog[i])

C1_Witness ==
    \E i \in Infos :
        /\ pc[i] = "dead"
        /\ info[i].pair # NULL
        /\ Len(ManifoldSetSeq(info[i].pair)) = MaxManifolds
        /\ Len(releaseLog[i]) = MaxManifolds

C3_OutstandingBlocks ==
    /\ Cardinality(outstanding) = NbPreBlocks + SumHeld(Infos)
    /\ (\A i \in Infos : pc[i] \in {"idle", "dead"}) =>
          Cardinality(outstanding) = NbPreBlocks

C3_Witness ==
    \E i, j \in Infos :
        /\ pc[i] = "dtor_loop" /\ Len(releaseLog[i]) >= 1 /\ element[i] # NULL
        /\ pc[j] = "ctor_loop" /\ Len(allocLog[j]) >= 1

\* C4: the constructor never walks past a manifold without contact points:
\* it aborts on the assertion there, having allocated no node for that
\* manifold, and no chain it leaves contains such a manifold.
C4_EmptyManifoldFaults ==
    \A i \in Infos :
        (info[i].pair # NULL /\ pc[i] \in {"ctor_loop", "live", "dtor_loop", "dead", "aborted"}) =>
            /\ \A m \in Range(Visited(i)) : GetNbContactPoints(m) > 0
            /\ Len(allocLog[i]) = Len(Visited(i))
            /\ pc[i] \in {"ctor_loop", "live", "aborted"} =>
                  \A m \in Range(ChainManifolds(i)) : GetNbContactPoints(m) > 0
            /\ pc[i] = "aborted" =>
                  /\ fault = "assert"
                  /\ contactManifold[i] # NULL
                  /\ GetNbContactPoints(contactManifold[i]) = 0
            /\ pc[i] \in {"live", "dtor_loop", "dead"} =>
                  /\ contactManifold[i] = NULL
                  /\ AllNonEmpty(info[i].pair)

C4_Witness ==
    \E i \in Infos :
        /\ pc[i] = "aborted" /\ fault = "assert"
        /\ info[i].pair # NULL
        /\ contactManifold[i] # NULL
        /\ GetNbContactPoints(contactManifold[i]) = 0
        /\ Len(allocLog[i]) >= 1

\* C5 (as claimed): the constructor never returns normally for a pair whose
\* manifold set is empty.
C5_EmptySetAsserts ==
    \A i \in Infos :
        (info[i].pair # NULL /\ GetContactManifolds(info[i].pair) = NULL) =>
            pc[i] \notin {"live", "dtor_loop", "dead"}

\* C5 (amended): for a pair whose manifold set is empty the constructor
\* fails no assertion: it allocates nothing and returns with an empty
\* (null) chain, and the destructor releases nothing.
C5_EmptySetReturnsEmptyChain ==
    \A i \in Infos :
        (info[i].pair # NULL /\ GetContactManifolds(info[i].pair) = NULL) =>
            /\ pc[i] # "aborted"
            /\ allocLog[i] = <<>>
            /\ releaseLog[i] = <<>>
            /\ info[i].contactManifoldElements = NULL

C5_Witness ==
    \E i \in Infos :
        /\ info[i].pair # NULL
        /\ GetContactManifolds(info[i].pair) = NULL
        /\ pc[i] = "dead"
        /\ fault = "none"

\* C10: the chain grows by prepending: the next of each new node is the
\* node built just before it (null for the first), so the chain read from
\* its head lists the manifolds walked so far in reverse order, each once,
\* and ends at null.
C10_PrependOrder ==
    \A i \in Infos :
        Walking(i) =>
            /\ ChainManifolds(i) = Reverse(Visited(i))
            /\ Len(ChainOf(i)) < ChainFuel
            /\ \A k \in 1 .. Len(allocLog[i]) :
                  nodes[allocLog[i][k][1]].next =
                      IF k = 1 THEN NULL ELSE allocLog[i][k - 1][1]
            /\ pc[i] = "live" =>
                  /\ ChainManifolds(i) = Reverse(ManifoldSetSeq(info[i].pair))
                  /\ Cardinality(Range(ChainManifolds(i))) = Len(ChainOf(i))

C10_Witness ==
    \E i \in Infos :
        /\ pc[i] = "live"
        /\ info[i].pair # NULL
        /\ Len(ChainOf(i)) = MaxManifolds
        /\ nodes[info[i].contactManifoldElements].manifold # GetContactManifolds(info[i].pair)

C12_ManifoldSetUnchanged ==
    [][/\ manifolds' = manifolds
       /\ pairSet' = pairSet
       /\ \A i \in Infos : Blocks(releaseLog'[i]) \subseteq Blocks(allocLog'[i])]_vars

C12_Witness ==
    \E i \in Infos :
        /\ pc[i] = "dead"
        /\ info[i].pair # NULL
        /\ Len(releaseLog[i]) = MaxManifolds
        /\ Len(ManifoldSetSeq(info[i].pair)) = MaxManifolds
        /\ AllNonEmpty(info[i].pair)

\* C13: the destructor reads no node after its release: the node the walk
\* is at is still allocated and still holds its element.
C13_NoReadAfterRelease ==
    /\ ~staleRead
    /\ \A i \in Infos :
          (pc[i] = "dtor_loop" /\ element[i] # NULL) =>
              /\ element[i] \in outstanding
              /\ nodes[element[i]] # NoNode
              /\ element[i] \notin Blocks(releaseLog[i])

C13_Witness ==
    \E i \in Infos :
        /\ pc[i] = "dtor_loop"
        /\ Len(releaseLog[i]) >= 1
        /\ element[i] # NULL

\* C14: with a null pair nothing is read through the pair before the
\* assertion pair != nullptr is evaluated, and the program ends on that
\* assertion.
C14_NullPairCheckedBeforeUse ==
    \A i \in Infos :
        (info[i].pair = NULL /\ derefLog[i] # <<>>) =>
            /\ derefLog[i][1] = "check"
            /\ fault # "segv"

=============================================================================
